---- MODULE Spec2Model ----
(***************************************************************************)
(* rs-esp32s3-midi-controller: the 4051 multiplexer scanner (src/mux.rs)   *)
(* with its time-based debounce and edge callbacks, the key/octave state   *)
(* machine and the two note queues (src/main.rs), and the transmission     *)
(* loop that drains them.                                                  *)
(*                                                                         *)
(* Two embassy tasks share one single-threaded executor: main (the         *)
(* transmission loop) and mux_poll_task (the scanner).  A task runs until  *)
(* it reaches an .await; only then can the other one run.  The variable    *)
(* running says which task holds the processor; every step of a task is    *)
(* an action guarded by it.                                                *)
(*                                                                         *)
(* Time.  The code compares Instant::now() with last_change[index].  The   *)
(* model keeps instants in microsecond ticks in a frame that moves with    *)
(* the clock: the clock always reads Now, and when d ticks pass every      *)
(* stored instant moves d ticks into the past.  An instant more than Now   *)
(* ticks old is kept as 0: the code only ever asks whether its age is at   *)
(* least debounce_interval, which is at most Now.                          *)
(***************************************************************************)
EXTENDS Integers, Sequences, FiniteSets, TLC

----------------------------------------------------------------------------
(* Program constants *)

\* main.rs:28-31  const KEYS: [i32; 27]
KEYS == << 255, 254, 0, 1, 2, 3, 4, 5, 6, 7, 8, 9, 10, 11, 12, 13, 14, 15,
           16, 17, 18, 19, 20, 21, 22, 23, 24 >>

OctaveUp == 255
OctaveDown == 254
NoNote == 255
DefaultOctave == 4
MaxOctave == 8
NumKeys == 25
NumChips == 4
ChannelsPerChip == 8
NumChannels == 64
DebounceInterval == 20000
SettleMicros == 50
LoopDelayMicros == 1000

(* Bounds of the model *)

\* heapless::Vec<i32, 128>: the capacity of each note queue.  The model keeps
\* it as a parameter and is checked with a small one, so that a full queue
\* is reached (a queue fills after QueueCapacity undelivered presses).
QueueCapacity == 2
\* The number of key presses the environment makes under Spec.
MaxPresses == 3
\* The shorter of the two amounts by which the clock advances when the
\* executor waits (the other is one whole debounce interval).
ShortDelay == 2000
\* The number of key presses the environment makes under OctaveSpec.
OctavePresses == 1
\* The number of key presses the environment makes under ShiftSpec.
ShiftPresses == 1
\* The number of key presses the environment makes under DebounceSpec.
DebouncePresses == 1
\* The number of key presses the environment makes under LiveSpec.
LivePresses == 1
\* The number of key presses the environment makes under TopKeySpec.
TopKeyPresses == 1
\* The number of key presses the environment makes under ConfiguredSpec.
ConfiguredPresses == 1
\* The intervals, besides the default, that set_debounce_interval is called
\* with under ConfiguredSpec: one shorter and one longer than the default.
ShorterInterval == 10000
LongerInterval == 40000

\* An environment: the switches it operates, the number of key presses it
\* makes, the amounts of time that pass while the executor waits, and the
\* debounce interval the multiplexer is configured with before scanning
\* starts.
EnvWithInterval(sw, p, dl, iv) ==
  [switches |-> sw, presses |-> p, delays |-> dl, interval |-> iv]

\* main.rs never calls set_debounce_interval: the interval is the default
Env(sw, p, dl) == EnvWithInterval(sw, p, dl, DebounceInterval)

Tasks == {"main", "mux"}
Locks == {"STATE", "ON", "OFF"}

Max(a, b) == IF a >= b THEN a ELSE b
Min(a, b) == IF a <= b THEN a ELSE b
Range(s) == {s[i] : i \in 1..Len(s)}

----------------------------------------------------------------------------
VARIABLES
  env,                 \* the environment; never changes
  running,             \* the task that holds the processor; "idle": both are
                       \* suspended at a timer; "panic": the firmware halted
  sleep,               \* per task: ticks left until its timer expires
  locks,               \* per task: the mutexes whose closures it is inside
  \* mux.rs: Multiplexer4051
  select,              \* the three select pins
  digital_in,          \* stable state of each channel
  last_change,         \* instant of each channel's last accepted change
  debounce_interval,
  channel,             \* poll_all: the loop variable of for channel in 0..8
  common_states,       \* poll_all: the readings of the chips' common pins
  chip_index,          \* poll_all: position in common_states
  index,               \* the argument of the running edge handler
  note,                \* the local `note` of the running edge handler
  pc_mux,
  \* main.rs: GLOBAL_STATE, ON_EVENTS, OFF_EVENTS
  key_note,
  octave,
  on_events,
  off_events,
  \* main.rs: main
  on_events_to_send,   \* the swapped-out batch, from the note in hand on
  off_events_to_send,
  pc_main,
  \* the transmitter: the ids of the notes it has accepted, in order
  sent_on,
  sent_off,
  \* history
  seq,                 \* number of events pushed so far (the last id given)
  presses,             \* number of key presses handled so far
  press_octave,        \* per held key: the octave when its press was handled
  accepted_ago,        \* per channel: ticks since its stable state changed
  sample_ago,          \* per operated channel: ticks since it was last polled
  sample_state,        \* per operated channel: the state its last sample implied
  ever_changed,        \* the channels whose stable state has ever changed
  pairs,               \* per press whose note-on was pushed: the ids of its
                       \* note-on and note-off (0: still held) and its key
  pushed_on,           \* ids of the events pushed by falling_edge_handler
  pushed_off,          \* ids of the events pushed by rising_edge_handler
  octave_before,       \* the octave when the running edge handler was entered
  on_failed,           \* a note-on submission has failed
  off_failed           \* a note-off submission has failed

muxVars == << select, digital_in, last_change, debounce_interval, channel,
              common_states, chip_index, index, note, pc_mux >>
stateVars == << key_note, octave >>
mainVars == << on_events_to_send, off_events_to_send, pc_main >>
histVars == << seq, presses, press_octave, accepted_ago,
                  sample_ago, sample_state, ever_changed, pairs, pushed_on,
              pushed_off, octave_before, on_failed, off_failed >>
vars == << env, running, sleep, locks, muxVars,
                  stateVars, on_events, off_events,
           mainVars, sent_on, sent_off, histVars >>

----------------------------------------------------------------------------
(* Helpers *)

\* The clock reading, in the moving frame: the instants the program keeps
\* are measured back from it, no further than the longest age it asks for.
Now == Max(DebounceInterval, debounce_interval)

\* self.debounce_interval = interval
SetDebounceInterval(interval) == interval

\* KEYS[index], for an index inside the array
KeyAt(i) == KEYS[i + 1]
InKeys(i) == i < Len(KEYS)

\* Push as it would be if the vector were filled from the front
PushFront(q, x) == IF Len(q) < QueueCapacity THEN << x >> \o q ELSE q

\* heapless::Vec::push(x).ok(): appends unless the vector is full
Push(q, x) == IF Len(q) < QueueCapacity THEN Append(q, x) ELSE q

\* Mutex::lock(|..| ..): entering and leaving the closure
Free(l) == \A t \in Tasks : l \notin Range(locks[t])
Acquire(t, l) == locks' = [locks EXCEPT ![t] = Append(@, l)]
Release(t) == locks' = [locks EXCEPT ![t] = SubSeq(@, 1, Len(@) - 1)]

\* an event in a queue: the note number, and the id and origin it is
\* tracked by (key and octave of the press it comes from)
Event(n, k, o) == [note |-> n, id |-> seq + 1, key |-> k, oct |-> o]

\* pairs once the press of key k that is still held (if its note-on was
\* pushed) has got the note-off i; i = 0: the note-off was dropped, and the
\* press is forgotten
ClosePress(k, i) ==
  LET held == {p \in pairs : p.key = k /\ p.off = 0}
  IN (pairs \ held) \cup (IF i = 0 THEN {} ELSE {[p EXCEPT !.off = i] : p \in held})

\* set_channel: the three bits of the channel, least significant first
ChannelBits(c) == << c % 2, (c \div 2) % 2, (c \div 4) % 2 >>

----------------------------------------------------------------------------
(* State after main has built the multiplexer, registered the callbacks and
   spawned mux_poll_task (main.rs:140-171), about to enter its loop. *)
InitWith(e) ==
  /\ env = e
  /\ running = "main"
  /\ sleep = [t \in Tasks |-> 0]
  /\ locks = [t \in Tasks |-> << >>]
  /\ select = << 0, 0, 0 >>
  /\ digital_in = [i \in 0..(NumChannels - 1) |-> "High"]
  /\ debounce_interval = SetDebounceInterval(e.interval)
  /\ last_change = [i \in 0..(NumChannels - 1) |-> Now - DebounceInterval]
  /\ channel = 0
  /\ common_states = << >>
  /\ chip_index = 0
  /\ index = 0
  /\ note = 0
  /\ pc_mux = "select"
  /\ key_note = [k \in 0..(NumKeys - 1) |-> NoNote]
  /\ octave = DefaultOctave
  /\ on_events = << >>
  /\ off_events = << >>
  /\ on_events_to_send = << >>
  /\ off_events_to_send = << >>
  /\ pc_main = "on_lock"
  /\ sent_on = << >>
  /\ sent_off = << >>
  /\ seq = 0
  /\ presses = 0
  /\ press_octave = [k \in 0..(NumKeys - 1) |-> DefaultOctave]
  /\ accepted_ago = [i \in 0..(NumChannels - 1) |-> Now]
  /\ sample_ago = [i \in 0..(NumChannels - 1) |-> Now]
  /\ sample_state = [i \in 0..(NumChannels - 1) |-> "High"]
  /\ ever_changed = {}
  /\ pairs = {}
  /\ pushed_on = {}
  /\ pushed_off = {}
  /\ octave_before = 0
  /\ on_failed = FALSE
  /\ off_failed = FALSE

----------------------------------------------------------------------------
(* The executor and the clock *)

\* Both tasks wait for their timers.  d ticks pass, task t's timer has then
\* expired, and the executor polls t.  (d = 0: the timer expired while the
\* other task ran.)
Wake(t, d) ==
  /\ running = "idle"
  /\ d >= sleep[t]
  /\ running' = t
  /\ sleep' = [u \in Tasks |-> Max(sleep[u] - d, 0)]
  /\ last_change' = [i \in DOMAIN last_change |-> Max(last_change[i] - d, 0)]
  /\ accepted_ago' = [i \in DOMAIN accepted_ago |->
                        Min(accepted_ago[i] + d, Now)]
  /\ sample_ago' = [i \in DOMAIN sample_ago |->
                      Min(sample_ago[i] + d, Now)]
  /\ UNCHANGED << sample_state, ever_changed, pairs >>
  /\ UNCHANGED << env, locks, select, digital_in, debounce_interval,
                  channel, common_states, chip_index, index, note, pc_mux,
                  stateVars, on_events, off_events, mainVars, sent_on,
                  sent_off, seq, presses, press_octave, pushed_on, pushed_off,
                  octave_before, on_failed, off_failed >>

----------------------------------------------------------------------------
(* main.rs:173-263: the transmission loop *)

MainAt(p) == running = "main" /\ pc_main = p

\* where the note-on loop goes with batch b left
AfterOn(b) == IF b = << >> THEN "off_lock" ELSE "on_send"
AfterOff(b) == IF b = << >> THEN "led_lock" ELSE "off_send"

OnLock ==
  /\ MainAt("on_lock")
  /\ Free("ON")
  /\ Acquire("main", "ON")
  /\ pc_main' = "on_swap"
  /\ UNCHANGED << env, running, sleep, muxVars,
                  stateVars, on_events, off_events,
                  on_events_to_send, off_events_to_send, sent_on,
                  sent_off, histVars >>

\* OnSwap as it would be without events.clear()
OnSwapWithoutClear ==
  /\ MainAt("on_swap")
  /\ on_events_to_send' = on_events
  /\ on_events' = on_events
  /\ Release("main")
  /\ pc_main' = AfterOn(on_events)
  /\ UNCHANGED << env, running, sleep, muxVars, stateVars, off_events,
                  off_events_to_send, sent_on, sent_off, histVars >>

\* OnSwap as it would be if the batch were iterated inside the lock closure
OnSwapKeepingLock ==
  /\ MainAt("on_swap")
  /\ on_events_to_send' = on_events
  /\ on_events' = << >>
  /\ UNCHANGED locks
  /\ pc_main' = AfterOn(on_events)
  /\ UNCHANGED << env, running, sleep, muxVars, stateVars, off_events,
                  off_events_to_send, sent_on, sent_off, histVars >>

\* events.clone(); events.clear(); the closure returns the clone
OnSwap ==
  /\ MainAt("on_swap")
  /\ on_events_to_send' = on_events
  /\ on_events' = << >>
  /\ Release("main")
  /\ pc_main' = AfterOn(on_events)
  /\ UNCHANGED << env, running, sleep, muxVars, stateVars, off_events,
                  off_events_to_send, sent_on, sent_off, histVars >>

\* send_packet returned Ok
OnSendOk ==
  /\ MainAt("on_send")
  /\ sent_on' = Append(sent_on, Head(on_events_to_send).id)
  /\ on_events_to_send' = Tail(on_events_to_send)
  /\ pc_main' = AfterOn(Tail(on_events_to_send))
  /\ UNCHANGED << env, running, sleep, locks, muxVars, stateVars, on_events,
                  off_events, off_events_to_send, sent_off, histVars >>

\* OnSendErr as it would be if the loop waited on a timer before it put
\* the refused note back
OnSendErrThenWait ==
  /\ MainAt("on_send")
  /\ on_failed' = TRUE
  /\ pc_main' = "on_retry_lock"
  /\ running' = "idle"
  /\ sleep' = [sleep EXCEPT !["main"] = LoopDelayMicros]
  /\ UNCHANGED << env, locks, muxVars, stateVars, on_events, off_events,
                  on_events_to_send, off_events_to_send, sent_on, sent_off,
                  seq, presses, press_octave, accepted_ago, sample_ago,
                  sample_state, ever_changed, pairs, pushed_on, pushed_off,
                  octave_before, off_failed >>

\* send_packet returned Err
OnSendErr ==
  /\ MainAt("on_send")
  /\ on_failed' = TRUE
  /\ pc_main' = "on_retry_lock"
  /\ UNCHANGED << env, running, sleep, locks, muxVars, stateVars, on_events,
                  off_events, on_events_to_send, off_events_to_send,
                  sent_on, sent_off, seq, presses, press_octave, accepted_ago,
                  sample_ago, sample_state, ever_changed, pairs,
                  pushed_on, pushed_off, octave_before, off_failed >>

OnRetryLock ==
  /\ MainAt("on_retry_lock")
  /\ Free("ON")
  /\ Acquire("main", "ON")
  /\ pc_main' = "on_retry_push"
  /\ UNCHANGED << env, running, sleep, muxVars,
                  stateVars, on_events, off_events,
                  on_events_to_send, off_events_to_send, sent_on,
                  sent_off, histVars >>

\* events.push(note_on).ok()
OnRetryPush ==
  /\ MainAt("on_retry_push")
  /\ on_events' = Push(on_events, Head(on_events_to_send))
  /\ on_events_to_send' = Tail(on_events_to_send)
  /\ Release("main")
  /\ pc_main' = AfterOn(Tail(on_events_to_send))
  /\ UNCHANGED << env, running, sleep, muxVars, stateVars, off_events,
                  off_events_to_send, sent_on, sent_off, histVars >>

OffLock ==
  /\ MainAt("off_lock")
  /\ Free("OFF")
  /\ Acquire("main", "OFF")
  /\ pc_main' = "off_swap"
  /\ UNCHANGED << env, running, sleep, muxVars,
                  stateVars, on_events, off_events,
                  on_events_to_send, off_events_to_send, sent_on,
                  sent_off, histVars >>

OffSwap ==
  /\ MainAt("off_swap")
  /\ off_events_to_send' = off_events
  /\ off_events' = << >>
  /\ Release("main")
  /\ pc_main' = AfterOff(off_events)
  /\ UNCHANGED << env, running, sleep, muxVars, stateVars, on_events,
                  on_events_to_send, sent_on, sent_off, histVars >>

OffSendOk ==
  /\ MainAt("off_send")
  /\ sent_off' = Append(sent_off, Head(off_events_to_send).id)
  /\ off_events_to_send' = Tail(off_events_to_send)
  /\ pc_main' = AfterOff(Tail(off_events_to_send))
  /\ UNCHANGED << env, running, sleep, locks, muxVars, stateVars, on_events,
                  off_events, on_events_to_send, sent_on, histVars >>

OffSendErr ==
  /\ MainAt("off_send")
  /\ off_failed' = TRUE
  /\ pc_main' = "off_retry_lock"
  /\ UNCHANGED << env, running, sleep, locks, muxVars, stateVars, on_events,
                  off_events, on_events_to_send, off_events_to_send,
                  sent_on, sent_off, seq, presses, press_octave, accepted_ago,
                  sample_ago, sample_state, ever_changed, pairs,
                  pushed_on, pushed_off, octave_before, on_failed >>

OffRetryLock ==
  /\ MainAt("off_retry_lock")
  /\ Free("OFF")
  /\ Acquire("main", "OFF")
  /\ pc_main' = "off_retry_push"
  /\ UNCHANGED << env, running, sleep, muxVars,
                  stateVars, on_events, off_events,
                  on_events_to_send, off_events_to_send, sent_on,
                  sent_off, histVars >>

OffRetryPush ==
  /\ MainAt("off_retry_push")
  /\ off_events' = Push(off_events, Head(off_events_to_send))
  /\ off_events_to_send' = Tail(off_events_to_send)
  /\ Release("main")
  /\ pc_main' = AfterOff(Tail(off_events_to_send))
  /\ UNCHANGED << env, running, sleep, muxVars, stateVars, on_events,
                  on_events_to_send, sent_on, sent_off, histVars >>

\* main.rs:234  GLOBAL_STATE.lock(|global_state| global_state.borrow().octave)
LedLock ==
  /\ MainAt("led_lock")
  /\ Free("STATE")
  /\ Acquire("main", "STATE")
  /\ pc_main' = "led_read"
  /\ UNCHANGED << env, running, sleep, muxVars,
                  stateVars, on_events, off_events,
                  on_events_to_send, off_events_to_send, sent_on,
                  sent_off, histVars >>

\* LedRead as it would be if the state lock were still held at the await
LedReadKeepingLock ==
  /\ MainAt("led_read")
  /\ UNCHANGED locks
  /\ pc_main' = "delay"
  /\ UNCHANGED << env, running, sleep, muxVars,
                  stateVars, on_events, off_events,
                  on_events_to_send, off_events_to_send, sent_on, sent_off,
                  histVars >>

LedRead ==
  /\ MainAt("led_read")
  /\ Release("main")
  /\ pc_main' = "delay"
  /\ UNCHANGED << env, running, sleep, muxVars,
                  stateVars, on_events, off_events,
                  on_events_to_send, off_events_to_send, sent_on, sent_off,
                  histVars >>

\* main.rs:262  Timer::after_millis(1).await; the loop then starts over
\* (usb_dev.poll, main.rs:175, is the USB stack's and changes nothing here)
MainDelay ==
  /\ MainAt("delay")
  /\ sleep' = [sleep EXCEPT !["main"] = LoopDelayMicros]
  /\ running' = "idle"
  /\ pc_main' = "on_lock"
  /\ UNCHANGED << env, locks, muxVars, stateVars, on_events, off_events,
                  on_events_to_send, off_events_to_send, sent_on,
                  sent_off, histVars >>

MainStep ==
  \/ OnLock \/ OnSwap \/ OnSendOk \/ OnSendErr \/ OnRetryLock \/ OnRetryPush
  \/ OffLock \/ OffSwap \/ OffSendOk \/ OffSendErr \/ OffRetryLock \/ OffRetryPush
  \/ LedLock \/ LedRead \/ MainDelay

----------------------------------------------------------------------------
(* mux.rs:175-193: poll_all, and mux.rs:142-172: poll_digital_input_chip *)

MuxAt(p) == running = "mux" /\ pc_mux = p

MuxPcs == {"select", "sample", "poll",
           "falling_lock", "falling_body", "falling_on_lock", "falling_push",
           "falling_unlock",
           "rising_lock", "rising_body", "rising_off_lock", "rising_push",
           "rising_clear", "rising_unlock"}

\* the positions of poll_all itself, outside any callback
ScanPcs == {"select", "sample", "poll"}

\* FlatIndex as it would be with channel and chip exchanged
FlatIndexSwapped(read_channel, chip_offset) ==
  (ChannelsPerChip * read_channel) + chip_offset

\* index = read_channel + (8 * chip_offset)
FlatIndex(read_channel, chip_offset) == read_channel + (ChannelsPerChip * chip_offset)

\* expected_state = if reading { Low } else { High }
ExpectedState(reading) == IF reading THEN "Low" ELSE "High"

\* DebounceElapsed as it would be if the elapsed time were not compared
DebounceNotWaited(i) == Now - last_change[i] >= 0

\* now.duration_since(self.last_change[index]) >= self.debounce_interval
DebounceElapsed(i) == Now - last_change[i] >= debounce_interval

\* StampChange as it would be if the accepted change were not timestamped
StampChangeForgotten(lc, i) == lc

\* self.last_change[index] = now
StampChange(lc, i) == [lc EXCEPT ![i] = Now]

\* a channel role that is a musical key
IsKeyChannel(i) == InKeys(i) /\ KeyAt(i) < OctaveDown

\* what the environment lets a common pin read for channel i: low only for
\* a switch it operates, and a new key press only while presses remain
MayReadLow(i) ==
  /\ i \in env.switches
  /\ (IsKeyChannel(i) /\ digital_in[i] = "High") => presses < env.presses

\* the readings of the common pins with channel c selected: switch i is
\* wired to channel i % 8 of chip i \div 8
Readings(c) ==
  { r \in [1..NumChips -> BOOLEAN] :
      \A j \in 1..NumChips : r[j] => MayReadLow(((j - 1) * 8) + c) }

\* self.set_channel(channel); Timer::after_micros(50).await
SelectChannel ==
  /\ MuxAt("select")
  /\ select' = ChannelBits(channel)
  /\ sleep' = [sleep EXCEPT !["mux"] = SettleMicros]
  /\ running' = "idle"
  /\ pc_mux' = "sample"
  /\ UNCHANGED << env, locks, digital_in, last_change,
                  debounce_interval, channel,
                  common_states, chip_index, index, note, stateVars,
                  on_events, off_events, mainVars, sent_on, sent_off,
                  histVars >>

\* common_states.push(common.is_low()) for every chip
Sample ==
  /\ MuxAt("sample")
  /\ \E r \in Readings(channel) : common_states' = r
  /\ chip_index' = 0
  /\ pc_mux' = "poll"
  /\ UNCHANGED << env, running, sleep, locks, select, digital_in, last_change,
                  debounce_interval, channel, index, note, stateVars,
                  on_events, off_events, mainVars, sent_on, sent_off,
                  histVars >>

\* PollDigitalInputChip as it would be if an ignored reading restarted the
\* window
PollRestartingWindow ==
  /\ MuxAt("poll")
  /\ chip_index < Len(common_states)
  /\ LET i == FlatIndex(channel, chip_index)
         expected_state == ExpectedState(common_states[chip_index + 1])
     IN /\ IF digital_in[i] # expected_state /\ DebounceElapsed(i)
           THEN /\ digital_in' = [digital_in EXCEPT ![i] = expected_state]
                /\ last_change' = StampChange(last_change, i)
                /\ accepted_ago' = [accepted_ago EXCEPT ![i] = 0]
                /\ ever_changed' = ever_changed \cup {i}
                /\ index' = i
                /\ pc_mux' = IF expected_state = "Low"
                             THEN "falling_lock" ELSE "rising_lock"
                /\ UNCHANGED chip_index
           ELSE /\ chip_index' = chip_index + 1
                /\ last_change' = IF digital_in[i] # expected_state
                                  THEN StampChange(last_change, i)
                                  ELSE last_change
                /\ UNCHANGED << digital_in, accepted_ago, ever_changed, index,
                                pc_mux >>
        /\ IF i \in env.switches
           THEN /\ sample_ago' = [sample_ago EXCEPT ![i] = 0]
                /\ sample_state' = [sample_state EXCEPT ![i] = expected_state]
           ELSE UNCHANGED << sample_ago, sample_state >>
  /\ UNCHANGED << env,
                  pairs, running, sleep, locks, select,
                  debounce_interval, channel,
                  common_states, note, stateVars, on_events, off_events,
                  mainVars, sent_on, sent_off, seq, presses, press_octave,
                  pushed_on, pushed_off, octave_before, on_failed,
                  off_failed >>

\* poll_digital_input_chip(state, read_channel, chip_index), up to the call
\* of the callback
PollDigitalInputChip ==
  /\ MuxAt("poll")
  /\ chip_index < Len(common_states)
  /\ LET i == FlatIndex(channel, chip_index)
         expected_state == ExpectedState(common_states[chip_index + 1])
     IN /\ IF digital_in[i] # expected_state /\ DebounceElapsed(i)
           THEN /\ digital_in' = [digital_in EXCEPT ![i] = expected_state]
                /\ last_change' = StampChange(last_change, i)
                /\ accepted_ago' = [accepted_ago EXCEPT ![i] = 0]
                /\ ever_changed' = ever_changed \cup {i}
                /\ index' = i
                /\ pc_mux' = IF expected_state = "Low"
                             THEN "falling_lock" ELSE "rising_lock"
                /\ UNCHANGED chip_index
           ELSE /\ chip_index' = chip_index + 1
                /\ UNCHANGED << digital_in, last_change, accepted_ago,
                  ever_changed,
                                index, pc_mux >>
        /\ IF i \in env.switches
           THEN /\ sample_ago' = [sample_ago EXCEPT ![i] = 0]
                /\ sample_state' = [sample_state EXCEPT ![i] = expected_state]
           ELSE UNCHANGED << sample_ago, sample_state >>
  /\ UNCHANGED << env,
                  pairs, running, sleep, locks, select,
                  debounce_interval, channel,
                  common_states, note, stateVars, on_events, off_events,
                  mainVars, sent_on, sent_off, seq, presses, press_octave,
                  pushed_on, pushed_off, octave_before, on_failed,
                  off_failed >>

\* the end of the for loop over common_states: the next channel of 0..8, or
\* the next round of the outer loop
NextChannel ==
  /\ MuxAt("poll")
  /\ chip_index = Len(common_states)
  /\ channel' = IF channel + 1 < ChannelsPerChip THEN channel + 1 ELSE 0
  /\ common_states' = << >>
  /\ chip_index' = 0
  /\ pc_mux' = "select"
  /\ UNCHANGED << env, running, sleep, locks, select, digital_in, last_change,
                  debounce_interval, index, note, stateVars, on_events,
                  off_events, mainVars, sent_on, sent_off, histVars >>

----------------------------------------------------------------------------
(* main.rs:60-87: falling_edge_handler *)

\* ShiftedNote as it would be if the octave were added without the factor 12
ShiftedNoteBySemitone(k, o) == k + o

\* note = KEYS[index] + (state.octave * 12)
ShiftedNote(k, o) == k + (o * 12)

\* OctaveAfterUp as it would be without the test against 8
OctaveAfterUpUnclamped(o) == o + 1

\* if state.octave < 8 { state.octave += 1 }
OctaveAfterUp(o) == IF o < MaxOctave THEN o + 1 ELSE o

\* if state.octave > 0 { state.octave -= 1 }
OctaveAfterDown(o) == IF o > 0 THEN o - 1 ELSE o

\* the callback returns into the loop over common_states; its argument and
\* local go out of scope
ReturnToPoll ==
  /\ chip_index' = chip_index + 1
  /\ index' = 0
  /\ note' = 0
  /\ octave_before' = 0
  /\ pc_mux' = "poll"

FallingLock ==
  /\ MuxAt("falling_lock")
  /\ Free("STATE")
  /\ Acquire("mux", "STATE")
  /\ octave_before' = octave
  /\ pc_mux' = "falling_body"
  /\ UNCHANGED << env, running, sleep, select, digital_in, last_change,
                  debounce_interval, channel, common_states, chip_index,
                  index, note, stateVars, on_events, off_events, mainVars,
                  sent_on, sent_off, seq, presses, press_octave, accepted_ago,
                  sample_ago, sample_state, ever_changed, pairs,
                  pushed_on, pushed_off, on_failed, off_failed >>

\* main.rs:64-77: KEYS[index] panics for an index outside the array
FallingBody ==
  /\ MuxAt("falling_body")
  /\ IF ~InKeys(index)
     THEN /\ running' = "panic"
          /\ UNCHANGED << octave, key_note, note, presses, press_octave,
                          pc_mux >>
     ELSE /\ UNCHANGED running
          /\ IF KeyAt(index) = OctaveUp
             THEN /\ octave' = OctaveAfterUp(octave)
                  /\ pc_mux' = "falling_unlock"
                  /\ UNCHANGED << key_note, note, presses, press_octave >>
             ELSE IF KeyAt(index) = OctaveDown
             THEN /\ octave' = OctaveAfterDown(octave)
                  /\ pc_mux' = "falling_unlock"
                  /\ UNCHANGED << key_note, note, presses, press_octave >>
             ELSE /\ note' = ShiftedNote(KeyAt(index), octave)
                  /\ key_note' = [key_note EXCEPT ![KeyAt(index)] = note']
                  /\ presses' = presses + 1
                  /\ press_octave' = [press_octave EXCEPT ![KeyAt(index)] = octave]
                  /\ pc_mux' = "falling_on_lock"
                  /\ UNCHANGED octave
  /\ UNCHANGED << env, sleep, locks, select, digital_in, last_change,
                  debounce_interval, channel, common_states, chip_index,
                  index, on_events, off_events, mainVars, sent_on, sent_off,
                  seq, accepted_ago,
                  sample_ago, sample_state,
                  ever_changed, pairs, pushed_on, pushed_off, octave_before,
                  on_failed, off_failed >>

FallingOnLock ==
  /\ MuxAt("falling_on_lock")
  /\ Free("ON")
  /\ Acquire("mux", "ON")
  /\ pc_mux' = "falling_push"
  /\ UNCHANGED << env, running, sleep, select, digital_in, last_change,
                  debounce_interval, channel, common_states, chip_index,
                  index, note, stateVars, on_events, off_events, mainVars,
                  sent_on, sent_off, histVars >>

\* FallingPush as it would be if the vector grew without a capacity
FallingPushUnbounded ==
  /\ MuxAt("falling_push")
  /\ on_events' = Append(on_events, Event(note, KeyAt(index), octave))
  /\ seq' = seq + 1
  /\ pushed_on' = pushed_on \cup {seq + 1}
  /\ pairs' = pairs \cup {[on |-> seq + 1, off |-> 0, key |-> KeyAt(index)]}
  /\ Release("mux")
  /\ pc_mux' = "falling_unlock"
  /\ UNCHANGED << env, running, sleep, select, digital_in, last_change,
                  debounce_interval, channel, common_states, chip_index,
                  index, note, stateVars, off_events, mainVars, sent_on,
                  sent_off, presses, press_octave, accepted_ago,
                  sample_ago, sample_state, ever_changed, pushed_off,
                  octave_before, on_failed, off_failed >>

\* if events.len() < 128 { events.push(note).ok(); }
FallingPush ==
  /\ MuxAt("falling_push")
  /\ IF Len(on_events) < QueueCapacity
     THEN /\ on_events' = Push(on_events, Event(note, KeyAt(index), octave))
          /\ seq' = seq + 1
          /\ pushed_on' = pushed_on \cup {seq + 1}
          /\ pairs' = pairs \cup {[on |-> seq + 1, off |-> 0, key |-> KeyAt(index)]}
     ELSE UNCHANGED << on_events, seq, pushed_on, pairs >>
  /\ Release("mux")
  /\ pc_mux' = "falling_unlock"
  /\ UNCHANGED << env, running, sleep, select, digital_in, last_change,
                  debounce_interval, channel, common_states, chip_index,
                  index, note, stateVars, off_events, mainVars, sent_on,
                  sent_off, presses, press_octave, accepted_ago,
                  sample_ago, sample_state, ever_changed, pushed_off,
                  octave_before, on_failed, off_failed >>

FallingUnlock ==
  /\ MuxAt("falling_unlock")
  /\ Release("mux")
  /\ ReturnToPoll
  /\ UNCHANGED << env, running, sleep, select, digital_in, last_change,
                  debounce_interval, channel, common_states,
                  stateVars, on_events, off_events, mainVars, sent_on,
                  sent_off, seq, presses, press_octave, accepted_ago,
                  sample_ago, sample_state, ever_changed, pairs, pushed_on,
                  pushed_off, on_failed, off_failed >>

----------------------------------------------------------------------------
(* main.rs:90-107: rising_edge_handler *)

\* HeldNote as it would be if the note were computed again at release
HeldNoteFromOctave(k) == ShiftedNote(k, octave)

\* HeldNote as it would be if key_note were reset before it is read
HeldNoteAfterReset(k) == [key_note EXCEPT ![k] = NoNote][k]

\* let note = state.key_note[KEYS[index] as usize]
HeldNote(k) == key_note[k]

RisingLock ==
  /\ MuxAt("rising_lock")
  /\ Free("STATE")
  /\ Acquire("mux", "STATE")
  /\ octave_before' = octave
  /\ pc_mux' = "rising_body"
  /\ UNCHANGED << env, running, sleep, select, digital_in, last_change,
                  debounce_interval, channel, common_states, chip_index,
                  index, note, stateVars, on_events, off_events, mainVars,
                  sent_on, sent_off, seq, presses, press_octave, accepted_ago,
                  sample_ago, sample_state, ever_changed, pairs,
                  pushed_on, pushed_off, on_failed, off_failed >>

\* RisingBody as it would be if the release of an octave control undid the
\* press
RisingBodyMomentary ==
  /\ MuxAt("rising_body")
  /\ IF ~InKeys(index)
     THEN /\ running' = "panic"
          /\ UNCHANGED << note, pc_mux, octave >>
     ELSE /\ UNCHANGED running
          /\ IF KeyAt(index) < OctaveDown
             THEN /\ note' = HeldNote(KeyAt(index))
                  /\ pc_mux' = "rising_off_lock"
                  /\ UNCHANGED octave
             ELSE /\ pc_mux' = "rising_unlock"
                  /\ octave' = IF KeyAt(index) = OctaveUp
                               THEN OctaveAfterDown(octave)
                               ELSE OctaveAfterUp(octave)
                  /\ UNCHANGED note
  /\ UNCHANGED << env, sleep, locks, select, digital_in, last_change,
                  debounce_interval, channel, common_states, chip_index,
                  index, key_note, on_events, off_events, mainVars, sent_on,
                  sent_off, histVars >>

\* main.rs:94-96
RisingBody ==
  /\ MuxAt("rising_body")
  /\ IF ~InKeys(index)
     THEN /\ running' = "panic"
          /\ UNCHANGED << note, pc_mux >>
     ELSE /\ UNCHANGED running
          /\ IF KeyAt(index) < OctaveDown
             THEN /\ note' = HeldNote(KeyAt(index))
                  /\ pc_mux' = "rising_off_lock"
             ELSE /\ pc_mux' = "rising_unlock"
                  /\ UNCHANGED note
  /\ UNCHANGED << env, sleep, locks, select, digital_in, last_change,
                  debounce_interval, channel, common_states, chip_index,
                  index, stateVars, on_events, off_events, mainVars, sent_on,
                  sent_off, histVars >>

RisingOffLock ==
  /\ MuxAt("rising_off_lock")
  /\ Free("OFF")
  /\ Acquire("mux", "OFF")
  /\ pc_mux' = "rising_push"
  /\ UNCHANGED << env, running, sleep, select, digital_in, last_change,
                  debounce_interval, channel, common_states, chip_index,
                  index, note, stateVars, on_events, off_events, mainVars,
                  sent_on, sent_off, histVars >>

\* if events.len() < 128 { events.push(note).ok(); }
RisingPush ==
  /\ MuxAt("rising_push")
  /\ IF Len(off_events) < QueueCapacity
     THEN /\ off_events' = Push(off_events,
                 Event(note, KeyAt(index), press_octave[KeyAt(index)]))
          /\ seq' = seq + 1
          /\ pushed_off' = pushed_off \cup {seq + 1}
          /\ pairs' = ClosePress(KeyAt(index), seq + 1)
     ELSE /\ pairs' = ClosePress(KeyAt(index), 0)
          /\ UNCHANGED << off_events, seq, pushed_off >>
  /\ Release("mux")
  /\ pc_mux' = "rising_clear"
  /\ UNCHANGED << env, running, sleep, select, digital_in, last_change,
                  debounce_interval, channel, common_states, chip_index,
                  index, note, stateVars, on_events, mainVars, sent_on,
                  sent_off, presses, press_octave, accepted_ago,
                  sample_ago, sample_state, ever_changed, pushed_on,
                  octave_before, on_failed, off_failed >>

\* RisingClear as it would be without the reset of key_note
RisingClearForgotten ==
  /\ MuxAt("rising_clear")
  /\ key_note' = key_note
  /\ press_octave' = [press_octave EXCEPT ![KeyAt(index)] = DefaultOctave]
  /\ pc_mux' = "rising_unlock"
  /\ UNCHANGED << env, running, sleep, locks, select, digital_in, last_change,
                  debounce_interval, channel, common_states, chip_index,
                  index, note, octave, on_events, off_events, mainVars,
                  sent_on, sent_off, seq, presses, accepted_ago,
                  sample_ago, sample_state, ever_changed, pairs, pushed_on,
                  pushed_off, octave_before, on_failed, off_failed >>

\* state.key_note[KEYS[index] as usize] = 255
RisingClear ==
  /\ MuxAt("rising_clear")
  /\ key_note' = [key_note EXCEPT ![KeyAt(index)] = NoNote]
  /\ press_octave' = [press_octave EXCEPT ![KeyAt(index)] = DefaultOctave]
  /\ pc_mux' = "rising_unlock"
  /\ UNCHANGED << env, running, sleep, locks, select, digital_in, last_change,
                  debounce_interval, channel, common_states, chip_index,
                  index, note, octave, on_events, off_events, mainVars,
                  sent_on, sent_off, seq, presses, accepted_ago,
                  sample_ago, sample_state, ever_changed, pairs, pushed_on,
                  pushed_off, octave_before, on_failed, off_failed >>

RisingUnlock ==
  /\ MuxAt("rising_unlock")
  /\ Release("mux")
  /\ ReturnToPoll
  /\ UNCHANGED << env, running, sleep, select, digital_in, last_change,
                  debounce_interval, channel, common_states,
                  stateVars, on_events, off_events, mainVars, sent_on,
                  sent_off, seq, presses, press_octave, accepted_ago,
                  sample_ago, sample_state, ever_changed, pairs, pushed_on,
                  pushed_off, on_failed, off_failed >>

MuxStep ==
  \/ SelectChannel \/ Sample \/ PollDigitalInputChip \/ NextChannel
  \/ FallingLock \/ FallingBody \/ FallingOnLock \/ FallingPush \/ FallingUnlock
  \/ RisingLock \/ RisingBody \/ RisingOffLock \/ RisingPush \/ RisingClear
  \/ RisingUnlock

----------------------------------------------------------------------------
Next ==
  \/ \E t \in Tasks : \E d \in {0} \cup env.delays : Wake(t, d)
  \/ MainStep
  \/ MuxStep

\* One key (channel 10: chip 1, channel 2, key 8) and the unmapped channel
\* 27; every wait lasts a whole debounce interval.
Init == InitWith(Env({10, 27}, MaxPresses, {DebounceInterval}))
Spec == Init /\ [][Next]_vars

\* The two octave buttons (channels 0 and 1) and key 0 (channel 2).
OctaveInit == InitWith(Env({0, 1, 2}, OctavePresses, {DebounceInterval}))
OctaveSpec == OctaveInit /\ [][Next]_vars

\* The octave-down button (channel 1) and key 0 (channel 2).
ShiftInit == InitWith(Env({1, 2}, ShiftPresses, {DebounceInterval}))
ShiftSpec == ShiftInit /\ [][Next]_vars

\* One key, with waits short enough for a channel to be sampled again
\* inside its debounce window.
DebounceInit ==
  InitWith(Env({10}, DebouncePresses, {ShortDelay, DebounceInterval}))
DebounceSpec == DebounceInit /\ [][Next]_vars

\* One key press and the unmapped channel, with the scheduling the executor
\* and the timers give: a task that is at a step takes it, a task whose timer
\* has expired is polled, and a transmitter that is offered packets again and
\* again accepts one.
LiveInit == InitWith(Env({10, 27}, LivePresses, {DebounceInterval}))
Fairness ==
  /\ WF_vars(MainStep)
  /\ WF_vars(MuxStep)
  /\ SF_vars(\E d \in {0} \cup env.delays : Wake("main", d))
  /\ SF_vars(\E d \in {0} \cup env.delays : Wake("mux", d))
  /\ SF_vars(OnSendOk)
  /\ SF_vars(OffSendOk)
LiveSpec == LiveInit /\ [][Next]_vars /\ Fairness

\* The octave-up button (channel 0) and the highest key, 24 (channel 26).
TopKeyInit == InitWith(Env({0, 26}, TopKeyPresses, {DebounceInterval}))
TopKeySpec == TopKeyInit /\ [][Next]_vars

\* One key, short and long waits, and a multiplexer whose debounce interval
\* was left at the default or set with set_debounce_interval between
\* Multiplexer4051::new and the start of the scan.
ConfiguredInit ==
  \E iv \in {ShorterInterval, DebounceInterval, LongerInterval} :
    InitWith(EnvWithInterval({10}, ConfiguredPresses,
                             {ShortDelay, DebounceInterval}, iv))
ConfiguredSpec == ConfiguredInit /\ [][Next]_vars

----------------------------------------------------------------------------
Events == [note : Int, id : Nat, key : 0..(NumKeys - 1), oct : 0..MaxOctave]

TypeOK ==
  /\ running \in {"main", "mux", "idle", "panic"}
  /\ sleep \in [Tasks -> 0..LoopDelayMicros]
  /\ \A t \in Tasks : \A i \in 1..Len(locks[t]) : locks[t][i] \in Locks
  /\ digital_in \in [0..(NumChannels - 1) -> {"High", "Low"}]
  /\ last_change \in [0..(NumChannels - 1) -> 0..Now]
  /\ channel \in 0..(ChannelsPerChip - 1)
  /\ chip_index \in 0..NumChips
  /\ pc_mux \in MuxPcs
  /\ octave \in Int
  /\ \A i \in 1..Len(on_events) : on_events[i] \in Events
  /\ \A i \in 1..Len(off_events) : off_events[i] \in Events
  /\ seq \in 0..(2 * env.presses)
  /\ presses \in 0..env.presses

----------------------------------------------------------------------------
(* Properties *)

Ids(q) == [j \in 1..Len(q) |-> q[j].id]
Occurrences(i, ids) == Cardinality({j \in 1..Len(ids) : ids[j] = i})
Increasing(ids) == \A a, b \in 1..Len(ids) : a < b => ids[a] < ids[b]

\* C1: every note-off that rising_edge_handler has enqueued carries
\* k + o1*12, where k is the key released and o1 the octave at the moment
\* falling_edge_handler handled the press of k, whatever the octave is at
\* the release.
NoteOffCarriesPressNote ==
  \A e \in Range(off_events) \cup Range(off_events_to_send) :
    e.note = e.key + (e.oct * 12)

\* a note-off has just been enqueued while the octave differs from the
\* octave of the press
NoteOffAfterOctaveChange ==
  /\ running = "mux"
  /\ pc_mux = "rising_clear"
  /\ \E e \in Range(off_events) : e.id = seq /\ e.oct # octave

\* C2: whenever the stable state of a channel changes, at least
\* debounce_interval has passed since its previous change.
DebounceSeparation ==
  [][\A i \in DOMAIN digital_in :
       digital_in'[i] # digital_in[i] => accepted_ago[i] >= debounce_interval]_vars

\* the key's release has been accepted (its second change), and less than a
\* debounce interval has passed since
SecondChangeAccepted ==
  /\ digital_in[10] = "High"
  /\ accepted_ago[10] > 0
  /\ accepted_ago[10] < DebounceInterval

\* the number of places a note-on (note-off) with id i is in: the queue, the
\* batch being drained, the transmitter
PlacesOn(i) ==
  Occurrences(i, Ids(on_events)) + Occurrences(i, Ids(on_events_to_send))
    + Occurrences(i, sent_on)
PlacesOff(i) ==
  Occurrences(i, Ids(off_events)) + Occurrences(i, Ids(off_events_to_send))
    + Occurrences(i, sent_off)

InOnePlace ==
  /\ \A i \in pushed_on : PlacesOn(i) = 1 /\ PlacesOff(i) = 0
  /\ \A i \in pushed_off : PlacesOff(i) = 1 /\ PlacesOn(i) = 0

RetryGoesToTail ==
  /\ (running = "main" /\ pc_main = "on_retry_push" /\ pc_main' # pc_main)
       => on_events' = Append(on_events, Head(on_events_to_send))
  /\ (running = "main" /\ pc_main = "off_retry_push" /\ pc_main' # pc_main)
       => off_events' = Append(off_events, Head(off_events_to_send))

\* C3: a note pushed onto a queue is at every moment in exactly one of the
\* queue, the batch being drained and the transmitter (so it is never lost
\* and never accepted twice), and a failed submission appends it to the same
\* queue.
NoLossNoDuplicate == []InOnePlace /\ [][RetryGoesToTail]_vars

\* the loop is draining a batch while a note it has put back waits in the
\* queue
RetriedNoteWaits ==
  /\ running = "main"
  /\ pc_main = "on_send"
  /\ on_events # << >>

\* C4: every note pushed onto a queue is eventually accepted by the
\* transmitter.
EventualDelivery ==
  \A i \in 1..(2 * LivePresses) :
    /\ (i \in pushed_on) ~> (Occurrences(i, sent_on) > 0)
    /\ (i \in pushed_off) ~> (Occurrences(i, sent_off) > 0)

\* C5: as long as no submission of a queue's notes has failed, the
\* transmitter has received that queue's notes in the order they were
\* enqueued.
InOrderWithoutFailure ==
  /\ ~on_failed => Increasing(sent_on)
  /\ ~off_failed => Increasing(sent_off)

\* three note-ons delivered without any failed note-on submission
ThreeDeliveredInOrder ==
  /\ ~on_failed
  /\ Len(sent_on) >= 3

OctaveRange ==
  /\ octave \in 0..MaxOctave
  /\ (running = "mux" /\ pc_mux = "falling_unlock" /\ KeyAt(index) = OctaveUp)
       => octave = IF octave_before = 8 THEN 8 ELSE octave_before + 1
  /\ (running = "mux" /\ pc_mux = "falling_unlock" /\ KeyAt(index) = OctaveDown)
       => octave = IF octave_before = 0 THEN 0 ELSE octave_before - 1
  /\ (running = "mux" /\ pc_mux = "falling_unlock" /\ KeyAt(index) < OctaveDown)
       => octave = octave_before
  /\ (running = "mux" /\ pc_mux = "rising_unlock") => octave = octave_before

\* C6: the octave is 4 at the start and always in 0..8; a handled octave-up
\* press at 8 and octave-down press at 0 leave it unchanged, every other
\* octave-button press changes it by exactly one, and key presses and all
\* releases leave it unchanged.
OctaveClamp == (octave = 4) /\ []OctaveRange /\ [][running # "mux" => octave' = octave]_vars

\* an octave-up press has been handled at octave 8
OctaveUpAtTop ==
  /\ running = "mux"
  /\ pc_mux = "falling_unlock"
  /\ KeyAt(index) = OctaveUp
  /\ octave_before = 8
  /\ octave = 8

\* C7: between the scanner's steps, for every channel i wired to a key k,
\* key_note[k] is 255 exactly when channel i is High, and a note number
\* when it is Low.
KeyNoteTracksHeld ==
  pc_mux \in ScanPcs =>
    \A i \in 0..(Len(KEYS) - 1) :
      KeyAt(i) \in 0..(NumKeys - 1) =>
        /\ key_note[KeyAt(i)] = 255 <=> digital_in[i] = "High"
        /\ digital_in[i] = "Low" => key_note[KeyAt(i)] \in 0..120

\* the key is held, and the note-on of one of the presses was dropped by
\* the full queue
HeldAfterDroppedNoteOn ==
  /\ pc_mux \in ScanPcs
  /\ digital_in[10] = "Low"
  /\ key_note[8] # 255
  /\ presses > Cardinality(pushed_on)

\* C8: a step changes the stable state of at most one channel, the one with
\* flat index chip*8 + channel; it then calls exactly one callback with that
\* index, falling for High->Low and rising for Low->High; and a callback is
\* called in no other step.
EdgeCallbackOnce ==
  [][LET changed == {i \in DOMAIN digital_in : digital_in'[i] # digital_in[i]}
         called == pc_mux' \in {"falling_lock", "rising_lock"} /\ pc_mux' # pc_mux
         flat == (chip_index * 8) + channel
     IN /\ changed # {} =>
             /\ changed = {flat}
             /\ called
             /\ index' = flat
             /\ pc_mux' = IF digital_in[flat] = "High" /\ digital_in'[flat] = "Low"
                          THEN "falling_lock" ELSE "rising_lock"
        /\ called => changed # {} /\ pc_mux = "poll"]_vars

\* the release of the key on chip 1, channel 2 has been confirmed and the
\* rising callback called with index 10
RisingCalledForChip1 ==
  /\ running = "mux"
  /\ pc_mux = "rising_lock"
  /\ index = 10
  /\ channel = 2
  /\ chip_index = 1

\* C9: no task is inside the closures of both queue locks; a queue lock is
\* taken holding nothing or the state lock only, and the state lock is taken
\* holding nothing.
LockDiscipline ==
  \A t \in Tasks :
    locks[t] \in { << >>, << "STATE" >>, << "ON" >>, << "OFF" >>,
                   << "STATE", "ON" >>, << "STATE", "OFF" >> }

\* the scanner's callback holds the state lock and the note-off queue lock
NestedStateThenQueue == locks["mux"] = << "STATE", "OFF" >>

\* the lock the task at position p is about to take
WantedLock(p) ==
  CASE p \in {"falling_lock", "rising_lock", "led_lock"} -> "STATE"
    [] p \in {"falling_on_lock", "on_lock", "on_retry_lock"} -> "ON"
    [] p \in {"rising_off_lock", "off_lock", "off_retry_lock"} -> "OFF"
    [] OTHER -> "none"

\* C10: a task that is about to take a lock finds it free; no lock is held
\* while both tasks are suspended; and the transmission loop holds no lock
\* while it submits a note.
NoBlocking ==
  /\ (running = "mux" /\ WantedLock(pc_mux) # "none") => Free(WantedLock(pc_mux))
  /\ (running = "main" /\ WantedLock(pc_main) # "none") => Free(WantedLock(pc_main))
  /\ running = "idle" => \A t \in Tasks : locks[t] = << >>
  /\ running = "mux" => locks["main"] = << >>
  /\ running = "main" => locks["mux"] = << >>
  /\ (running = "main" /\ pc_main \in {"on_send", "off_send"}) => locks["main"] = << >>

\* the loop is about to take the note-on queue lock again for a failed
\* note while the key is held
RetryLockWhileKeyHeld ==
  /\ running = "main"
  /\ pc_main = "on_retry_lock"
  /\ digital_in[10] = "Low"

QueueBounded ==
  /\ Len(on_events) <= QueueCapacity
  /\ Len(off_events) <= QueueCapacity

FullQueueDrops ==
  /\ (MuxAt("falling_push") /\ Len(on_events) = QueueCapacity /\ pc_mux' # pc_mux)
       => on_events' = on_events /\ off_events' = off_events /\ running' = "mux"
  /\ (MuxAt("rising_push") /\ Len(off_events) = QueueCapacity /\ pc_mux' # pc_mux)
       => off_events' = off_events /\ on_events' = on_events /\ running' = "mux"

\* C11: neither queue ever holds more than its capacity, and a press or
\* release handled while its queue is full leaves both queues as they
\* are and the scanner running (the new note is dropped without an error).
QueueOverflowDropsNewest == []QueueBounded /\ [][FullQueueDrops]_vars

\* a key press has just been handled with the note-on queue full of the
\* notes of all the earlier presses: its own note was not pushed
PressDroppedAtFullQueue ==
  /\ MuxAt("falling_unlock")
  /\ index = 10
  /\ Len(on_events) = QueueCapacity
  /\ pushed_on = Range(Ids(on_events))
  /\ presses = Cardinality(pushed_on) + 1

\* the step polls channel i: poll_digital_input_chip is called for it
Polled(i) ==
  /\ MuxAt("poll")
  /\ chip_index < Len(common_states)
  /\ i = FlatIndex(channel, chip_index)

\* the state implied by the sample the step polls
PolledState == ExpectedState(common_states[chip_index + 1])

\* the step neither changes the stable state of channel i nor calls a
\* callback
NotAccepted(i) ==
  /\ digital_in'[i] = digital_in[i]
  /\ pc_mux' \notin {"falling_lock", "rising_lock"}

\* C12 as stated: of two samples of a channel that imply different states
\* and arrive less than debounce_interval apart, the second is not accepted.
SecondOfTwoSamplesRejected ==
  [][\A i \in env.switches :
       (Polled(i) /\ PolledState # sample_state[i]
          /\ sample_ago[i] < debounce_interval) => NotAccepted(i)]_vars

\* C12: a sample that arrives less than debounce_interval after an accepted
\* sample of its channel and implies a different state is not accepted: it
\* neither changes the stable state nor fires a callback.
SampleAfterAcceptedRejected ==
  [][\A i \in DOMAIN digital_in :
       (Polled(i) /\ PolledState # digital_in[i]
          /\ accepted_ago[i] < debounce_interval) => NotAccepted(i)]_vars

\* the press of the key was accepted less than a debounce interval ago, and
\* a sample implying High has just been polled and left the key Low
BounceAfterPressRejected ==
  /\ MuxAt("poll")
  /\ digital_in[10] = "Low"
  /\ accepted_ago[10] > 0
  /\ accepted_ago[10] < DebounceInterval
  /\ sample_state[10] = "High"
  /\ sample_ago[10] = 0

\* the positions of falling_edge_handler and of rising_edge_handler
FallingPcs == {"falling_lock", "falling_body", "falling_on_lock",
               "falling_push", "falling_unlock"}
RisingPcs == {"rising_lock", "rising_body", "rising_off_lock", "rising_push",
              "rising_clear", "rising_unlock"}

\* what a step of falling_edge_handler does for key k at the current octave
KeyPressStep(k) ==
  LET n == k + (octave * 12)
      moved == pc_mux' # pc_mux
  IN /\ octave' = octave
     /\ off_events' = off_events
     /\ \A j \in DOMAIN key_note : j # k => key_note'[j] = key_note[j]
     /\ (pc_mux = "falling_body" /\ moved) => key_note'[k] = n
     /\ pc_mux # "falling_body" => key_note'[k] = key_note[k]
     /\ (pc_mux = "falling_push" /\ moved /\ Len(on_events) < QueueCapacity)
          => /\ key_note[k] = n
             /\ Len(on_events') = Len(on_events) + 1
             /\ SubSeq(on_events', 1, Len(on_events)) = on_events
             /\ on_events'[Len(on_events')].note = n
     /\ pc_mux # "falling_push" => on_events' = on_events
     /\ (index = 2 /\ octave = 4 /\ pc_mux = "falling_body" /\ moved)
          => key_note'[0] = 48

\* C13: the handling of a press of key k at octave o sets key_note[k] to
\* k + o*12 and appends that value to the note-on queue if it has room, and
\* changes neither the octave, nor another key's key_note, nor the
\* note-off queue; channel 2 at octave 4 gives 48.
KeyPressRecordsAndEnqueues ==
  [][(running = "mux" /\ pc_mux \in FallingPcs /\ IsKeyChannel(index))
       => KeyPressStep(KeyAt(index))]_vars

\* the press of channel 2 has been handled at the default octave: 48 is in
\* key_note[0] and is the newest note of the note-on queue
Channel2PressGives48 ==
  /\ MuxAt("falling_unlock")
  /\ index = 2
  /\ octave = 4
  /\ key_note[0] = 48
  /\ on_events # << >>
  /\ on_events[Len(on_events)].note = 48
  /\ on_events[Len(on_events)].id = seq

\* the channel's role is one of the two octave controls
IsOctaveChannel(i) == InKeys(i) /\ KeyAt(i) \in {OctaveUp, OctaveDown}

QueuesUnchanged == on_events' = on_events /\ off_events' = off_events

\* C14: the handling of a press of an octave control changes neither
\* key_note nor a queue, and the handling of a release of an octave control
\* changes neither key_note, nor the octave, nor a queue.
OctaveControlsProduceNoEvents ==
  [][(running = "mux" /\ IsOctaveChannel(index))
       => /\ pc_mux \in FallingPcs => key_note' = key_note /\ QueuesUnchanged
          /\ pc_mux \in RisingPcs =>
               key_note' = key_note /\ octave' = octave /\ QueuesUnchanged]_vars

\* the release of the octave-up button has been handled after it raised
\* the octave, while the key is held and its note-on waits in the queue
OctaveUpReleasedWhileKeyHeld ==
  /\ MuxAt("rising_unlock")
  /\ index = 0
  /\ octave > DefaultOctave
  /\ key_note[0] # NoNote
  /\ on_events # << >>

\* C15: a polled sample that implies a state other than the stable state
\* of its channel less than debounce_interval after the channel's last
\* accepted change, and a polled sample that implies the stable state,
\* change neither a stable state nor a last-change timestamp and fire no
\* callback.
IgnoredSampleChangesNothing ==
  [][\A i \in DOMAIN digital_in :
       (Polled(i) /\ (PolledState = digital_in[i]
                        \/ accepted_ago[i] < debounce_interval))
         => /\ digital_in' = digital_in
            /\ last_change' = last_change
            /\ pc_mux' \notin {"falling_lock", "rising_lock"}]_vars

\* a sample implying High was ignored while the key is Low, less than a
\* debounce interval ago, and the window of the key's press has run out
\* all the same
WindowNotRestarted ==
  /\ digital_in[10] = "Low"
  /\ sample_state[10] = "High"
  /\ sample_ago[10] > 0
  /\ sample_ago[10] < DebounceInterval
  /\ accepted_ago[10] >= DebounceInterval
  /\ DebounceElapsed(10)

\* C16: as long as the stable state of a channel has never changed, a
\* polled sample that implies Low is accepted (the first such sample is
\* one, and if it is accepted there is no other), whatever interval the
\* multiplexer was configured with.
FirstTransitionAccepted ==
  [][\A i \in DOMAIN digital_in :
       (Polled(i) /\ i \notin ever_changed /\ PolledState = "Low")
         => digital_in'[i] = "Low" /\ pc_mux' = "falling_lock"]_vars

\* C17: for every press followed by its release, the transmitter has
\* accepted the note-off only if it has already accepted the note-on of
\* that press.
NoteOnBeforeItsNoteOff ==
  \A p \in pairs :
    (p.off # 0 /\ Occurrences(p.off, sent_off) > 0)
      => Occurrences(p.on, sent_on) > 0

\* C18: whenever a handler runs, its index is a position of KEYS, and the
\* key it names, if it is a musical key, a position of key_note; the
\* firmware never halts on an index out of range.
HandlerIndexInRange ==
  /\ running # "panic"
  /\ (running = "mux" /\ pc_mux \in FallingPcs \cup RisingPcs)
       => /\ InKeys(index)
          /\ KeyAt(index) < OctaveDown => KeyAt(index) \in DOMAIN key_note

\* the highest note number: key 24 at octave 8
MaxNote == (NumKeys - 1) + (MaxOctave * 12)

\* C19: every note in a queue or in a batch on its way to the transmitter
\* is a note number in 0..120, never the sentinel 255, and when
\* rising_edge_handler reads key_note for a key it holds a note number.
QueuedNotesAreNoteNumbers ==
  /\ MaxNote = 120
  /\ \A e \in Range(on_events) \cup Range(off_events)
               \cup Range(on_events_to_send) \cup Range(off_events_to_send) :
       e.note \in 0..MaxNote
  /\ (MuxAt("rising_body") /\ IsKeyChannel(index))
       => key_note[KeyAt(index)] # NoNote

\* the note-off of the highest key, pressed at the highest octave, is in
\* the note-off queue
TopNoteOffQueued ==
  /\ MuxAt("rising_clear")
  /\ index = 26
  /\ \E e \in Range(off_events) : e.id = seq /\ e.note = 120

\* the positions of the loop between the swap-out of a note-on (note-off)
\* batch and the end of its iteration
OnDrainPcs == {"on_send", "on_retry_lock", "on_retry_push"}
OffDrainPcs == {"off_send", "off_retry_lock", "off_retry_push"}

\* C20: while the loop iterates a batch the scanner does not run and the
\* queue holds only notes put back from that batch (each pushed before
\* every note still in the batch), so the queue and the rest of the batch
\* fit in the capacity together, and when the loop puts a refused note back
\* the queue has room for it.
RetryPushHasRoom ==
  /\ pc_main \in OnDrainPcs
       => /\ running = "main"
          /\ Len(on_events) + Len(on_events_to_send) <= QueueCapacity
          /\ \A e \in Range(on_events) : \A b \in Range(on_events_to_send) :
               e.id < b.id
  /\ pc_main \in OffDrainPcs
       => /\ running = "main"
          /\ Len(off_events) + Len(off_events_to_send) <= QueueCapacity
          /\ \A e \in Range(off_events) : \A b \in Range(off_events_to_send) :
               e.id < b.id
  /\ MainAt("on_retry_push") => Len(on_events) < QueueCapacity
  /\ MainAt("off_retry_push") => Len(off_events) < QueueCapacity

\* the loop is about to put back the last note of a full batch whose other
\* notes were all refused: the queue has room for exactly one note
RetryIntoLastFreeSlot ==
  /\ MainAt("on_retry_push")
  /\ Len(on_events) = QueueCapacity - 1
  /\ Len(on_events_to_send) = 1

====
